---- MODULE Spec2Model ----
(***************************************************************************)
(* Recipe-App: a Django REST Framework backend for users, recipes, tags    *)
(* and ingredients.  The model covers the owner-scoped querysets and the   *)
(* permission/authentication settings of app/recipe/views.py, the request  *)
(* handlers those viewsets expose, the nested tag/ingredient              *)
(* reconciliation run on recipe writes, and the user accounts:             *)
(* registration, token issuance and the profile endpoint over the          *)
(* serializers of app/user/serializers.py.  A third specification serves  *)
(* recipe creates side by side, step by step.                              *)
(***************************************************************************)
EXTENDS Integers, Sequences, FiniteSets, TLC

\* ---------------------------------------------------------------- bounds
NumUsers == 2
MaxRecipes == 2
MaxTags == 3
MaxIngredients == 1
NumNames == 2
NumTitles == 2
MaxList == 2
MaxWrites == 2
MaxAccounts == 2
NumLinks == 1
NumCalls == 3

\* UserSerializer.Meta.extra_kwargs: password min_length
MinLength == 5

Users == 1..NumUsers
Names == 1..NumNames
Titles == 1..NumTitles
Links == 1..NumLinks
Kinds == {"tag", "ingredient"}

\* recipes, tags, ingredients : the three tables, id -> row
\* recipeSeq, tagSeq, ingredientSeq : last primary key handed out per table
\* writes : number of requests that changed the database so far
\* res : the last request served and its response
\* accounts : the user table, id -> [email, password (encoded), name]
\* accountSeq : last primary key handed out in the user table
\* tokens : the ids of the users a token has been issued for
\* calls : the recipe writes served side by side, call -> how far it got
\*         and what it wrote inside its transaction
VARIABLES recipes, tags, ingredients, recipeSeq, tagSeq, ingredientSeq,
          writes, res, accounts, accountSeq, tokens, calls

vars == <<recipes, tags, ingredients, recipeSeq, tagSeq, ingredientSeq,
          writes, res, accounts, accountSeq, tokens, calls>>
db == <<recipes, tags, ingredients, recipeSeq, tagSeq, ingredientSeq>>
userdb == <<accounts, accountSeq, tokens>>

Calls == 1..NumCalls

\* a call that has not been received
NoCall == [pc |-> "idle", user |-> 1, kind |-> "tag", name |-> 1,
           recipe |-> 0, row |-> 0, created |-> FALSE, status |-> 0]

\* ------------------------------------------------------------- strings
\* text is a sequence of characters; an e-mail address holds one "@"
LowerChar(c) == IF c = "U" THEN "u" ELSE IF c = "X" THEN "x" ELSE c
Lower(str) == [i \in DOMAIN str |-> LowerChar(str[i])]
Blank == <<>>
Repeat(c, n) == [i \in 1..n |-> c]

\* addresses submitted: none, and one local part and one domain in both cases
Emails == {Blank, <<"u", "@", "x">>, <<"u", "@", "X">>, <<"U", "@", "X">>}

\* passwords submitted: none, one too short, two long enough
Passwords == {Blank, Repeat("p", MinLength - 1), Repeat("p", MinLength),
              Repeat("q", MinLength)}

\* ------------------------------------------------------------- payloads
\* the `tags` / `ingredients` value of a recipe payload: a list of {name}
NameLists == UNION {[1..n -> Names] : n \in 0..MaxList}

NameSet(names) == {names[i] : i \in DOMAIN names}

\* a request body; has_x = FALSE means the key x is not in the body
NoPayload == [has_title |-> FALSE, title |-> 1,
              has_tags |-> FALSE, tags |-> <<>>,
              has_ingredients |-> FALSE, ingredients |-> <<>>,
              has_name |-> FALSE, name |-> 1,
              image |-> "none",
              has_link |-> FALSE, link |-> 0,
              has_user |-> FALSE, user |-> 1,
              has_email |-> FALSE, email |-> Blank,
              has_password |-> FALSE, password |-> Blank]

\* the nested part of a recipe body: no list, `tags`, or `ingredients`
NestedPayloads ==
  {NoPayload}
  \cup {[NoPayload EXCEPT !.has_tags = TRUE, !.tags = g] : g \in NameLists}
  \cup {[NoPayload EXCEPT !.has_ingredients = TRUE, !.ingredients = i] :
          i \in NameLists}

\* a body of scalar fields only: `title` or not, with `link` or not, or
\* with a `user` key, which is no field of the recipe serializers
ScalarPayloads ==
  LET titled == {NoPayload}
                \cup {[NoPayload EXCEPT !.has_title = TRUE, !.title = t] :
                        t \in Titles}
  IN {[b EXCEPT !.has_link = TRUE, !.link = l] : b \in titled, l \in Links}
     \cup {[b EXCEPT !.has_user = TRUE, !.user = u] :
             b \in titled, u \in Users}

RecipePayloads ==
  NestedPayloads
  \cup {[n EXCEPT !.has_title = TRUE, !.title = t] :
          n \in NestedPayloads, t \in Titles}
  \cup ScalarPayloads

\* the body of a tag / ingredient update: {name} or {}
AttributePayloads ==
  {NoPayload}
  \cup {[NoPayload EXCEPT !.has_name = TRUE, !.name = n] : n \in Names}

\* the multipart body of an image upload: one file, decodable or not
ImagePayloads == {[NoPayload EXCEPT !.image = f] : f \in {"valid", "invalid"}}

\* ------------------------------------------------------------ responses
\* what is on record of the last request: the operation, whether it carried
\* a valid token (auth) and whose, the primary key addressed, the status and
\* data answered, the body as the serializer received it, the assigned_only
\* flag, the serializer class an upload was validated with, whether a
\* recipe write repeated the nested lists of the write before it, and the
\* exception a call made outside a request raised
Response(op, auth, user, id, status, data, body, flag) ==
  [op |-> op, auth |-> auth, user |-> user, id |-> id, status |-> status,
   data |-> data, body |-> body, assigned_only |-> flag,
   serializer |-> "", resubmitted |-> FALSE, raised |-> ""]

\* ---------------------------------------------------- table primitives
Table(kind) == IF kind = "tag" THEN tags ELSE ingredients
TableSeq(kind) == IF kind = "tag" THEN tagSeq ELSE ingredientSeq
MaxRows(kind) == IF kind = "tag" THEN MaxTags ELSE MaxIngredients
Assoc(recipe, kind) == IF kind = "tag" THEN recipe.tags ELSE recipe.ingredients

Insert(table, id, row) ==
  [i \in DOMAIN table \cup {id} |-> IF i = id THEN row ELSE table[i]]
Remove_Nothing(table, id) == table

Remove(table, id) == [i \in DOMAIN table \ {id} |-> table[i]]

Max(S) == CHOOSE x \in S : \A y \in S : y <= x

\* ------------------------------------------------- authentication gate
\* authentication_classes = [TokenAuthentication],
\* permission_classes = [IsAuthenticated]: a request without a valid token
\* is refused before any handler runs
IsAuthenticated_AllowAny(auth) == TRUE

IsAuthenticated(auth) == auth

\* ------------------------------------------------------------ querysets
Min(S) == CHOOSE x \in S : \A y \in S : x <= y

RECURSIVE OrderByIdAsc(_)
OrderByIdAsc(ids) ==
  IF ids = {} THEN <<>>
  ELSE LET m == Min(ids) IN <<m>> \o OrderByIdAsc(ids \ {m})

RECURSIVE OrderByIdDesc(_)
OrderByIdDesc(ids) ==
  IF ids = {} THEN <<>>
  ELSE LET m == Max(ids) IN <<m>> \o OrderByIdDesc(ids \ {m})

RecipeViewSet_get_queryset_Unscoped(user) == OrderByIdDesc(DOMAIN recipes)

\* RecipeViewSet.get_queryset: filter(user=request.user).order_by('-id')
RecipeViewSet_get_queryset(user) ==
  OrderByIdDesc({id \in DOMAIN recipes : recipes[id].user = user})

BaseRecipeAttributesViewSet_get_queryset_Ascending(table, user) ==
  LET ids == {id \in DOMAIN table : table[id].user = user}
      n == Cardinality(ids)
  IN {s \in [1..n -> ids] :
        /\ \A i, j \in 1..n : i # j => s[i] # s[j]
        /\ \A i, j \in 1..n : i < j => table[s[i]].name <= table[s[j]].name}

\* BaseRecipeAttributesViewSet.get_queryset:
\* filter(user=request.user).order_by('-name').  Rows with equal names come
\* in whatever order the database picks, so the result is any of the
\* orderings that are non-increasing in name.
BaseRecipeAttributesViewSet_get_queryset(table, user) ==
  LET ids == {id \in DOMAIN table : table[id].user = user}
      n == Cardinality(ids)
  IN {s \in [1..n -> ids] :
        /\ \A i, j \in 1..n : i # j => s[i] # s[j]
        /\ \A i, j \in 1..n : i < j => table[s[i]].name >= table[s[j]].name}

SeqSet(s) == {s[i] : i \in DOMAIN s}

\* GenericAPIView.get_object over a filtered queryset: a primary key outside
\* it raises Http404
InQueryset(ids, pk) == pk \in ids

\* ----------------------------------------------------------------- Init
Init ==
  /\ recipes = <<>>
  /\ tags = <<>>
  /\ ingredients = <<>>
  /\ recipeSeq = 0
  /\ tagSeq = 0
  /\ ingredientSeq = 0
  /\ writes = 0
  /\ res = Response("none", FALSE, 1, 0, 0, <<>>, NoPayload, FALSE)
  /\ accounts = <<>>
  /\ accountSeq = 0
  /\ tokens = {}
  /\ calls = [c \in Calls |-> NoCall]

\* ------------------------------------------------------ reconciliation
RECURSIVE GetOrCreate_AlwaysCreate(_, _, _, _)
GetOrCreate_AlwaysCreate(table, last, auth_user, names) ==
  IF names = <<>>
  THEN [table |-> table, last |-> last, ids |-> {}, ok |-> TRUE]
  ELSE LET id == last + 1
           row == [user |-> auth_user, name |-> Head(names)]
           rest == GetOrCreate_AlwaysCreate(Insert(table, id, row), id,
                                            auth_user, Tail(names))
       IN [rest EXCEPT !.ids = @ \cup {id}]

RECURSIVE GetOrCreate_AnyOwner(_, _, _, _)
GetOrCreate_AnyOwner(table, last, auth_user, names) ==
  IF names = <<>>
  THEN [table |-> table, last |-> last, ids |-> {}, ok |-> TRUE]
  ELSE LET name == Head(names)
           matches == {id \in DOMAIN table : table[id].name = name}
       IN IF Cardinality(matches) > 1
          THEN [table |-> table, last |-> last, ids |-> {}, ok |-> FALSE]
          ELSE IF matches # {}
          THEN LET rest == GetOrCreate_AnyOwner(table, last, auth_user,
                                                Tail(names))
               IN [rest EXCEPT !.ids = @ \cup matches]
          ELSE LET id == last + 1
                   row == [user |-> auth_user, name |-> name]
                   rest == GetOrCreate_AnyOwner(Insert(table, id, row), id,
                                                auth_user, Tail(names))
               IN [rest EXCEPT !.ids = @ \cup {id}]

\* RecipeSerializer._get_or_create_tags / _get_or_create_ingredients: for
\* each submitted name, get_or_create(user=auth_user, name=name).  `ids`
\* collects the resolved rows; two rows matching one (user, name) make the
\* lookup fail (MultipleObjectsReturned), reported as ok = FALSE.
RECURSIVE GetOrCreate(_, _, _, _)
GetOrCreate(table, last, auth_user, names) ==
  IF names = <<>>
  THEN [table |-> table, last |-> last, ids |-> {}, ok |-> TRUE]
  ELSE LET name == Head(names)
           matches == {id \in DOMAIN table :
                         table[id].user = auth_user /\ table[id].name = name}
       IN IF Cardinality(matches) > 1
          THEN [table |-> table, last |-> last, ids |-> {}, ok |-> FALSE]
          ELSE IF matches # {}
          THEN LET rest == GetOrCreate(table, last, auth_user, Tail(names))
               IN [rest EXCEPT !.ids = @ \cup matches]
          ELSE LET id == last + 1
                   row == [user |-> auth_user, name |-> name]
                   rest == GetOrCreate(Insert(table, id, row), id, auth_user,
                                       Tail(names))
               IN [rest EXCEPT !.ids = @ \cup {id}]

\* the nested list is not touched when the key is absent from the body
Kept(table, last, ids) ==
  [table |-> table, last |-> last, ids |-> ids, ok |-> TRUE]

\* ---------------------------------------------------- common responses
Unauthorized(op) ==
  /\ res' = Response(op, FALSE, 1, 0, 401, <<>>, NoPayload, FALSE)
  /\ UNCHANGED <<db, writes>>

Refuse(op, auth, user, pk, status) ==
  /\ res' = Response(op, auth, user, pk, status, <<>>, NoPayload, FALSE)
  /\ UNCHANGED <<db, writes>>

RecipeData(id) == [id |-> id, title |-> recipes[id].title]

\* ------------------------------------------------------ RecipeViewSet
perform_create_OtherUser(request_user) ==
  CHOOSE u \in Users : u # request_user

\* RecipeViewSet.perform_create: serializer.save(user=self.request.user)
perform_create(request_user) == request_user

\* RecipeViewSet.get_serializer_class
get_serializer_class(action) ==
  IF action = "list" THEN "RecipeSerializer"
  ELSE IF action = "upload-image" THEN "RecipeImageSerializer"
  ELSE "RecipeDetailSerializer"

\* GET /recipe/recipes
RecipeList(auth, user) ==
  IF ~IsAuthenticated(auth) THEN Unauthorized("recipe_list")
  ELSE LET qs == RecipeViewSet_get_queryset(user)
       IN /\ res' = Response("recipe_list", auth, user, 0, 200,
                              [i \in DOMAIN qs |-> RecipeData(qs[i])],
                              NoPayload, FALSE)
          /\ UNCHANGED <<db, writes>>

\* GET /recipe/recipes/{pk}
RecipeRetrieve(auth, user, pk) ==
  IF ~IsAuthenticated(auth) THEN Unauthorized("recipe_retrieve")
  ELSE IF ~InQueryset(SeqSet(RecipeViewSet_get_queryset(user)), pk)
  THEN Refuse("recipe_retrieve", auth, user, pk, 404)
  ELSE /\ res' = Response("recipe_retrieve", auth, user, pk, 200,
                           <<RecipeData(pk)>>, NoPayload, FALSE)
       /\ UNCHANGED <<db, writes>>

\* RecipeDetailSerializer validation: title, time_minutes and price are
\* required unless the update is partial (the model keeps one of the three)
RecipeValid(body, partial) == partial \/ body.has_title

\* the write repeats the nested lists that the write just before it stored
\* on the same recipe for the same user
Resubmission(auth_user, pk, body) ==
  /\ res.op \in {"recipe_create", "recipe_update", "recipe_partial_update"}
  /\ res.status \in {200, 201}
  /\ res.id = pk
  /\ res.user = auth_user
  /\ body.has_tags \/ body.has_ingredients
  /\ body.has_tags = res.body.has_tags
  /\ body.tags = res.body.tags
  /\ body.has_ingredients = res.body.has_ingredients
  /\ body.ingredients = res.body.ingredients

\* RecipeSerializer.create / update: nested lists are popped from the
\* validated data and resolved for the requesting user; on update the
\* association is cleared and re-filled only when the key was submitted;
\* the remaining fields (title and link are kept here) are assigned to the
\* row when submitted, and a `user` key, no field of the serializer, is
\* dropped.  `old` is the row before
\* the write (a fresh row on create).
SaveRecipe(op, status, auth, auth_user, pk, old, body) ==
  LET t == IF body.has_tags
           THEN GetOrCreate(tags, tagSeq, auth_user, body.tags)
           ELSE Kept(tags, tagSeq, old.tags)
      g == IF body.has_ingredients
           THEN GetOrCreate(ingredients, ingredientSeq, auth_user,
                            body.ingredients)
           ELSE Kept(ingredients, ingredientSeq, old.ingredients)
      row == [old EXCEPT !.title = IF body.has_title THEN body.title ELSE @,
                         !.link = IF body.has_link THEN body.link ELSE @,
                         !.tags = t.ids, !.ingredients = g.ids]
      again == Resubmission(auth_user, pk, body)
  IN IF ~t.ok \/ ~g.ok
     THEN \* unhandled exception: the request is rejected as a whole
          /\ res' = [Response(op, auth, auth_user,
                               IF pk \in DOMAIN recipes THEN pk ELSE 0,
                               500, <<>>, body, FALSE)
                        EXCEPT !.resubmitted = again]
          /\ UNCHANGED <<db, writes>>
     ELSE /\ writes < MaxWrites
          /\ t.last <= MaxTags
          /\ g.last <= MaxIngredients
          /\ recipes' = Insert(recipes, pk, row)
          /\ recipeSeq' = IF pk > recipeSeq THEN pk ELSE recipeSeq
          /\ tags' = t.table
          /\ tagSeq' = t.last
          /\ ingredients' = g.table
          /\ ingredientSeq' = g.last
          /\ writes' = writes + 1
          /\ res' = [Response(op, auth, auth_user, pk, status,
                               <<[id |-> pk, title |-> row.title]>>, body,
                               FALSE)
                        EXCEPT !.resubmitted = again]

\* POST /recipe/recipes
RecipeCreate(auth, user, body) ==
  IF ~IsAuthenticated(auth) THEN Unauthorized("recipe_create")
  ELSE IF ~RecipeValid(body, FALSE)
  THEN Refuse("recipe_create", auth, user, 0, 400)
  ELSE LET pk == recipeSeq + 1
           fresh == [user |-> perform_create(user), title |-> body.title,
                     link |-> 0, image |-> "", tags |-> {},
                     ingredients |-> {}]
       IN /\ pk <= MaxRecipes
          /\ SaveRecipe("recipe_create", 201, auth, user, pk, fresh, body)

\* an update that saves the body onto an empty instance under the same key
RecipeUpdate_FreshInstance(auth, user, pk, body, partial) ==
  LET op == IF partial THEN "recipe_partial_update" ELSE "recipe_update"
  IN IF ~IsAuthenticated(auth) THEN Unauthorized(op)
     ELSE IF ~InQueryset(SeqSet(RecipeViewSet_get_queryset(user)), pk)
     THEN Refuse(op, auth, user, pk, 404)
     ELSE IF ~RecipeValid(body, partial)
     THEN Refuse(op, auth, user, pk, 400)
     ELSE SaveRecipe(op, 200, auth, user, pk,
                     [user |-> recipes[pk].user, title |-> 1, link |-> 0,
                      image |-> "", tags |-> {}, ingredients |-> {}],
                     body)

\* PUT (partial = FALSE) and PATCH (partial = TRUE) /recipe/recipes/{pk}
RecipeUpdate(auth, user, pk, body, partial) ==
  LET op == IF partial THEN "recipe_partial_update" ELSE "recipe_update"
  IN IF ~IsAuthenticated(auth) THEN Unauthorized(op)
     ELSE IF ~InQueryset(SeqSet(RecipeViewSet_get_queryset(user)), pk)
     THEN Refuse(op, auth, user, pk, 404)
     ELSE IF ~RecipeValid(body, partial)
     THEN Refuse(op, auth, user, pk, 400)
     ELSE SaveRecipe(op, 200, auth, user, pk, recipes[pk], body)

\* DELETE /recipe/recipes/{pk}
RecipeDestroy(auth, user, pk) ==
  IF ~IsAuthenticated(auth) THEN Unauthorized("recipe_destroy")
  ELSE IF ~InQueryset(SeqSet(RecipeViewSet_get_queryset(user)), pk)
  THEN Refuse("recipe_destroy", auth, user, pk, 404)
  ELSE /\ writes < MaxWrites
       /\ recipes' = Remove(recipes, pk)
       /\ writes' = writes + 1
       /\ res' = Response("recipe_destroy", auth, user, pk, 204, <<>>,
                           NoPayload, FALSE)
       /\ UNCHANGED <<tags, ingredients, recipeSeq, tagSeq, ingredientSeq>>

\* what the serializer picked for the upload requires of the body: the
\* image-only serializer wants a decodable image; the detail serializer,
\* run as a full update, also wants the required recipe fields
UploadValid(serializer_class, body) ==
  IF serializer_class = "RecipeImageSerializer"
  THEN body.image = "valid"
  ELSE body.image # "invalid" /\ RecipeValid(body, FALSE)

\* upload_image without the is_valid() test: the file is stored whatever
\* the serializer made of it
UploadImage_SaveAlways(auth, user, pk, body) ==
  IF ~IsAuthenticated(auth) THEN Unauthorized("recipe_upload_image")
  ELSE IF ~InQueryset(SeqSet(RecipeViewSet_get_queryset(user)), pk)
  THEN Refuse("recipe_upload_image", auth, user, pk, 404)
  ELSE /\ writes < MaxWrites
       /\ recipes' = [recipes EXCEPT ![pk].image = "uploads/recipe/uuid.jpg"]
       /\ writes' = writes + 1
       /\ res' = [Response("recipe_upload_image", auth, user, pk, 200,
                            <<[image |-> "uploads/recipe/uuid.jpg"]>>,
                            body, FALSE)
                     EXCEPT !.serializer = get_serializer_class("upload_image")]
       /\ UNCHANGED <<tags, ingredients, recipeSeq, tagSeq, ingredientSeq>>

\* RecipeViewSet.upload_image: POST /recipe/recipes/{pk}/upload-image.
\* The action is routed under the method's name, upload_image.
UploadImage(auth, user, pk, body) ==
  IF ~IsAuthenticated(auth) THEN Unauthorized("recipe_upload_image")
  ELSE IF ~InQueryset(SeqSet(RecipeViewSet_get_queryset(user)), pk)
  THEN Refuse("recipe_upload_image", auth, user, pk, 404)
  ELSE LET serializer_class == get_serializer_class("upload_image")
       IN IF UploadValid(serializer_class, body)
          THEN /\ writes < MaxWrites
               /\ recipes' = [recipes EXCEPT
                                ![pk].image = "uploads/recipe/uuid.jpg"]
               /\ writes' = writes + 1
               /\ res' = [Response("recipe_upload_image", auth, user, pk,
                                    200,
                                    <<[image |-> "uploads/recipe/uuid.jpg"]>>,
                                    body, FALSE)
                             EXCEPT !.serializer = serializer_class]
               /\ UNCHANGED <<tags, ingredients, recipeSeq, tagSeq,
                              ingredientSeq>>
          ELSE /\ res' = [Response("recipe_upload_image", auth, user, pk,
                                    400, <<>>, body, FALSE)
                             EXCEPT !.serializer = serializer_class]
               /\ UNCHANGED <<db, writes>>

\* --------------------------------- TagViewSet / IngredientViewSet
OpName(kind, action) == kind \o "_" \o action

SetTable(kind, table) ==
  IF kind = "tag" THEN tags' = table /\ UNCHANGED ingredients
  ELSE ingredients' = table /\ UNCHANGED tags

AttributeData(table, id) == [id |-> id, name |-> table[id].name]

\* the actions the attribute viewsets are built from: UpdateModelMixin,
\* DestroyModelMixin and ListModelMixin.  A method with no action bound to
\* it is answered 405 once the request has passed authentication.
AttributeActions == {"update", "partial_update", "destroy", "list"}

\* GET /recipe/tags, /recipe/ingredients (assigned_only is a query flag)
AttributeList(kind, auth, user, assigned_only) ==
  IF ~IsAuthenticated(auth) THEN Unauthorized(OpName(kind, "list"))
  ELSE \E qs \in BaseRecipeAttributesViewSet_get_queryset(Table(kind), user) :
         /\ res' = Response(OpName(kind, "list"), auth, user, 0, 200,
                             [i \in DOMAIN qs |->
                                AttributeData(Table(kind), qs[i])],
                             NoPayload, assigned_only)
         /\ UNCHANGED <<db, writes>>

\* GET /recipe/tags/{pk}, /recipe/ingredients/{pk}
AttributeRetrieve(kind, auth, user, pk) ==
  IF ~IsAuthenticated(auth) THEN Unauthorized(OpName(kind, "retrieve"))
  ELSE IF "retrieve" \notin AttributeActions
  THEN Refuse(OpName(kind, "retrieve"), auth, user, pk, 405)
  ELSE IF \A qs \in BaseRecipeAttributesViewSet_get_queryset(Table(kind),
                                                              user) :
            ~InQueryset(SeqSet(qs), pk)
  THEN Refuse(OpName(kind, "retrieve"), auth, user, pk, 404)
  ELSE /\ res' = Response(OpName(kind, "retrieve"), auth, user, pk, 200,
                           <<AttributeData(Table(kind), pk)>>, NoPayload,
                           FALSE)
       /\ UNCHANGED <<db, writes>>

\* PUT (partial = FALSE) and PATCH (partial = TRUE) on a tag / ingredient;
\* the serializer exposes id (read-only) and name
AttributeUpdate(kind, auth, user, pk, body, partial) ==
  LET op == OpName(kind, IF partial THEN "partial_update" ELSE "update")
      table == Table(kind)
  IN IF ~IsAuthenticated(auth) THEN Unauthorized(op)
     ELSE IF \A qs \in BaseRecipeAttributesViewSet_get_queryset(table, user) :
               ~InQueryset(SeqSet(qs), pk)
     THEN Refuse(op, auth, user, pk, 404)
     ELSE IF ~partial /\ ~body.has_name
     THEN Refuse(op, auth, user, pk, 400)
     ELSE LET name == IF body.has_name THEN body.name ELSE table[pk].name
          IN /\ writes < MaxWrites
             /\ SetTable(kind, [table EXCEPT ![pk].name = name])
             /\ writes' = writes + 1
             /\ res' = Response(op, auth, user, pk, 200,
                                 <<[id |-> pk, name |-> name]>>, body, FALSE)
             /\ UNCHANGED <<recipes, recipeSeq, tagSeq, ingredientSeq>>

\* a delete that removes the row and leaves the rows of the many-to-many
\* table that point at it
AttributeDestroy_NoCascade(kind, auth, user, pk) ==
  LET op == OpName(kind, "destroy")
      table == Table(kind)
  IN IF ~IsAuthenticated(auth) THEN Unauthorized(op)
     ELSE IF \A qs \in BaseRecipeAttributesViewSet_get_queryset(table, user) :
               ~InQueryset(SeqSet(qs), pk)
     THEN Refuse(op, auth, user, pk, 404)
     ELSE /\ writes < MaxWrites
          /\ SetTable(kind, Remove(table, pk))
          /\ writes' = writes + 1
          /\ res' = Response(op, auth, user, pk, 204, <<>>, NoPayload, FALSE)
          /\ UNCHANGED <<recipes, recipeSeq, tagSeq, ingredientSeq>>

\* DELETE on a tag / ingredient; the rows of the many-to-many table that
\* point at it go with it
AttributeDestroy(kind, auth, user, pk) ==
  LET op == OpName(kind, "destroy")
      table == Table(kind)
  IN IF ~IsAuthenticated(auth) THEN Unauthorized(op)
     ELSE IF \A qs \in BaseRecipeAttributesViewSet_get_queryset(table, user) :
               ~InQueryset(SeqSet(qs), pk)
     THEN Refuse(op, auth, user, pk, 404)
     ELSE /\ writes < MaxWrites
          /\ SetTable(kind, Remove(table, pk))
          /\ recipes' = [id \in DOMAIN recipes |->
                           IF kind = "tag"
                           THEN [recipes[id] EXCEPT !.tags = @ \ {pk}]
                           ELSE [recipes[id] EXCEPT !.ingredients = @ \ {pk}]]
          /\ writes' = writes + 1
          /\ res' = Response(op, auth, user, pk, 204, <<>>, NoPayload, FALSE)
          /\ UNCHANGED <<recipeSeq, tagSeq, ingredientSeq>>

\* ------------------------------------------------------------ /user/me
\* GET /user/me: the profile of the token's user
MeRetrieve(auth, user) ==
  IF ~IsAuthenticated(auth) THEN Unauthorized("me_retrieve")
  ELSE /\ res' = Response("me_retrieve", auth, user, user, 200, <<>>,
                           NoPayload, FALSE)
       /\ UNCHANGED <<db, writes>>

\* ----------------------------------------------------------------- Next
RecipeIds == 1..MaxRecipes
AttributeIds(kind) == 1..MaxRows(kind)

\* a request without a valid token is refused whatever else it carries, so
\* one representative of each is enough
Callers(auth) == IF auth THEN Users ELSE {1}
Pks(auth, ids) == IF auth THEN ids ELSE {1}
Bodies(auth, bodies) == IF auth THEN bodies ELSE {NoPayload}
Flags(auth) == IF auth THEN BOOLEAN ELSE {FALSE}

\* The requests are served one at a time and share nothing but the
\* database, so a request that left the database as it was has no bearing
\* on the requests after it: every run is explored as a series of requests
\* that changed the database, closed by at most one that did not.
Changed(r) ==
  \/ r.op = "none"
  \/ r.status \in {201, 204}
  \/ r.status = 200 /\ r.op \in {"recipe_update", "recipe_partial_update",
                                  "recipe_upload_image",
                                  "tag_update", "tag_partial_update",
                                  "ingredient_update",
                                  "ingredient_partial_update"}

Next ==
  \/ Changed(res) /\ UNCHANGED <<userdb, calls>> /\ \E a \in BOOLEAN : \E u \in Callers(a) : RecipeList(a, u)
  \/ Changed(res) /\ UNCHANGED <<userdb, calls>> /\ \E a \in BOOLEAN : \E u \in Callers(a), pk \in Pks(a, RecipeIds) :
        RecipeRetrieve(a, u, pk)
  \/ Changed(res) /\ UNCHANGED <<userdb, calls>> /\ \E a \in BOOLEAN : \E u \in Callers(a), b \in Bodies(a, RecipePayloads) :
        RecipeCreate(a, u, b)
  \/ Changed(res) /\ UNCHANGED <<userdb, calls>> /\ \E a \in BOOLEAN : \E u \in Callers(a), pk \in Pks(a, RecipeIds),
                           b \in Bodies(a, RecipePayloads), partial \in BOOLEAN :
        RecipeUpdate(a, u, pk, b, partial)
  \/ Changed(res) /\ UNCHANGED <<userdb, calls>> /\ \E a \in BOOLEAN : \E u \in Callers(a), pk \in Pks(a, RecipeIds) :
        RecipeDestroy(a, u, pk)
  \/ Changed(res) /\ UNCHANGED <<userdb, calls>> /\ \E a \in BOOLEAN : \E u \in Callers(a), pk \in Pks(a, RecipeIds),
                           b \in Bodies(a, ImagePayloads) :
        UploadImage(a, u, pk, b)
  \/ Changed(res) /\ UNCHANGED <<userdb, calls>> /\ \E k \in Kinds, a \in BOOLEAN : \E u \in Callers(a), f \in Flags(a) :
        AttributeList(k, a, u, f)
  \/ Changed(res) /\ UNCHANGED <<userdb, calls>> /\ \E k \in Kinds, a \in BOOLEAN :
        \E u \in Callers(a), pk \in Pks(a, AttributeIds(k)) :
          AttributeRetrieve(k, a, u, pk)
  \/ Changed(res) /\ UNCHANGED <<userdb, calls>> /\ \E k \in Kinds, a \in BOOLEAN :
        \E u \in Callers(a), pk \in Pks(a, AttributeIds(k)),
           b \in Bodies(a, AttributePayloads), partial \in BOOLEAN :
          AttributeUpdate(k, a, u, pk, b, partial)
  \/ Changed(res) /\ UNCHANGED <<userdb, calls>> /\ \E k \in Kinds, a \in BOOLEAN :
        \E u \in Callers(a), pk \in Pks(a, AttributeIds(k)) :
          AttributeDestroy(k, a, u, pk)
  \/ Changed(res) /\ UNCHANGED <<userdb, calls>> /\ \E a \in BOOLEAN : \E u \in Callers(a) : MeRetrieve(a, u)

Spec == Init /\ [][Next]_vars

\* ============================================================== accounts
\* position of the last "@" of an address, 0 when it has none
LastAt(email) == Max({0} \cup {i \in DOMAIN email : email[i] = "@"})

\* BaseUserManager.normalize_email: the text after the last "@" in lower
\* case, the text before it as it came; an address without "@" as it came
normalize_email(email) ==
  LET k == LastAt(email)
  IN IF k = 0 THEN email
     ELSE SubSeq(email, 1, k) \o Lower(SubSeq(email, k + 1, Len(email)))

\* set_password / check_password: the stored text is an encoding of the
\* raw password, and a raw password verifies against its own encoding only
make_password(raw) == <<"pbkdf2_sha256$">> \o raw

check_password(raw, encoded) == encoded = make_password(raw)

\* UserManager.create_user(email, password, **extra_fields): refuses an
\* empty address, stores the normalised address and the encoded password;
\* the unique index on email refuses a second row with the same address
create_user(email, password, name) ==
  IF email = Blank
  THEN [raised |-> "ValueError", id |-> 0, row |-> <<>>]
  ELSE LET row == [email |-> normalize_email(email),
                   password |-> make_password(password),
                   name |-> name]
       IN IF \E id \in DOMAIN accounts : accounts[id].email = row.email
          THEN [raised |-> "IntegrityError", id |-> 0, row |-> <<>>]
          ELSE [raised |-> "", id |-> accountSeq + 1, row |-> row]

\* superuser provisioning: UserManager.create_superuser(email, password),
\* called outside any request with a password that is not empty; it goes
\* through create_user
CreateSuperuser(email, password) ==
  LET made == create_user(email, password, 0)
      body == [NoPayload EXCEPT !.has_email = TRUE, !.email = email,
                                !.has_password = TRUE, !.password = password]
  IN IF made.raised # ""
     THEN /\ res' = [Response("create_superuser", FALSE, 1, 0, 0, <<>>, body,
                              FALSE) EXCEPT !.raised = made.raised]
          /\ UNCHANGED <<db, writes, userdb>>
     ELSE /\ writes < MaxWrites
          /\ made.id <= MaxAccounts
          /\ accounts' = Insert(accounts, made.id, made.row)
          /\ accountSeq' = made.id
          /\ writes' = writes + 1
          /\ res' = Response("create_superuser", FALSE, made.id, made.id, 0,
                             <<>>, body, FALSE)
          /\ UNCHANGED <<db, tokens>>

\* --------------------------------------------------------- UserSerializer
\* UserSerializer.Meta: fields email, password, name; password write_only
UserSerializer_data(row) == [email |-> row.email, name |-> row.name]

PasswordValid_AnyLength(body, partial) ==
  IF body.has_password THEN body.password # Blank ELSE partial

\* the password field: required unless the update is partial, not blank,
\* min_length 5
PasswordValid(body, partial) ==
  IF body.has_password
  THEN body.password # Blank /\ Len(body.password) >= MinLength
  ELSE partial

\* the email and name fields as the model declares them: required unless
\* the update is partial, not blank, and the address not the address of
\* another row than the one updated (instance, 0 on create)
ModelFieldsValid(body, partial, instance) ==
  /\ IF body.has_email
     THEN /\ body.email # Blank
          /\ \A id \in DOMAIN accounts \ {instance} :
               accounts[id].email # body.email
     ELSE partial
  /\ body.has_name \/ partial

UserSerializer_is_valid(body, partial, instance) ==
  PasswordValid(body, partial) /\ ModelFieldsValid(body, partial, instance)

\* create() that builds the row from the validated data as they are
UserSerializer_create_Plain(body) ==
  [raised |-> "", id |-> accountSeq + 1,
   row |-> [email |-> body.email, password |-> body.password,
            name |-> body.name]]

\* UserSerializer.create: create_user(**validated_data)
UserSerializer_create(body) ==
  create_user(body.email, body.password, body.name)

UserSerializer_update_AlwaysSetPassword(instance, body) ==
  [instance EXCEPT
     !.email = IF body.has_email THEN body.email ELSE @,
     !.name = IF body.has_name THEN body.name ELSE @,
     !.password = make_password(IF body.has_password THEN body.password
                                ELSE Blank)]

\* UserSerializer.update: the password is popped from the validated data
\* (None when absent), the other fields are assigned, and the password is
\* set when the popped value is truthy
UserSerializer_update(instance, body) ==
  LET password == IF body.has_password THEN body.password ELSE Blank
      user == [instance EXCEPT
                 !.email = IF body.has_email THEN body.email ELSE @,
                 !.name = IF body.has_name THEN body.name ELSE @]
  IN IF password # Blank
     THEN [user EXCEPT !.password = make_password(password)]
     ELSE user

\* ------------------------------------------------------------ user views
\* a user request refused with nothing stored
RefuseUser(op, auth, user, status, body) ==
  /\ res' = Response(op, auth, user, user, status, <<>>, body, FALSE)
  /\ UNCHANGED <<db, writes, userdb>>

\* POST /user/create: CreateAPIView over UserSerializer, open to anyone;
\* UserSerializer.create hands the validated data to create_user
CreateUserView_post(body) ==
  IF ~UserSerializer_is_valid(body, FALSE, 0)
  THEN RefuseUser("user_create", FALSE, 0, 400, body)
  ELSE LET made == UserSerializer_create(body)
       IN IF made.raised # ""
          THEN /\ res' = [Response("user_create", FALSE, 0, 0, 500, <<>>,
                                   body, FALSE)
                            EXCEPT !.raised = made.raised]
               /\ UNCHANGED <<db, writes, userdb>>
          ELSE /\ writes < MaxWrites
               /\ made.id <= MaxAccounts
               /\ accounts' = Insert(accounts, made.id, made.row)
               /\ accountSeq' = made.id
               /\ writes' = writes + 1
               /\ res' = Response("user_create", FALSE, made.id, made.id,
                                  201, <<UserSerializer_data(made.row)>>,
                                  body, FALSE)
               /\ UNCHANGED <<db, tokens>>

\* django.contrib.auth.authenticate(username=email, password=password):
\* the user stored under that address if the password verifies, else None
authenticate(email, password) ==
  LET found == {id \in DOMAIN accounts :
                  /\ accounts[id].email = email
                  /\ check_password(password, accounts[id].password)}
  IN IF found = {} THEN 0 ELSE CHOOSE id \in found : TRUE

\* validate() that looks the user up by address and never verifies the
\* password
AuthTokenSerializer_validate_SkipAuthenticate(body) ==
  IF ~body.has_email \/ body.email = Blank
     \/ ~body.has_password \/ body.password = Blank
  THEN 0
  ELSE LET found == {id \in DOMAIN accounts :
                       accounts[id].email = body.email}
       IN IF found = {} THEN 0 ELSE CHOOSE id \in found : TRUE

\* AuthTokenSerializer: email = EmailField(), password = CharField(...),
\* both required and not blank; validate() raises unless authenticate
\* returns a user.  The value is that user's id, 0 when validation fails.
AuthTokenSerializer_validate(body) ==
  IF ~body.has_email \/ body.email = Blank
     \/ ~body.has_password \/ body.password = Blank
  THEN 0
  ELSE authenticate(body.email, body.password)

\* POST /user/token: ObtainAuthToken over AuthTokenSerializer; the token of
\* the validated user is fetched or created and returned
CreateTokenView_post(body) ==
  LET user == AuthTokenSerializer_validate(body)
  IN IF user = 0
     THEN RefuseUser("token_create", FALSE, 0, 400, body)
     ELSE /\ tokens' = tokens \cup {user}
          /\ res' = Response("token_create", FALSE, user, user, 200,
                             <<[token |-> user]>>, body, FALSE)
          /\ UNCHANGED <<db, writes, accounts, accountSeq>>

\* GET /user/me: the profile of the token's user (token 0: none sent)
ManageUserView_retrieve(token) ==
  IF ~IsAuthenticated(token \in tokens)
  THEN Unauthorized("me_retrieve") /\ UNCHANGED userdb
  ELSE /\ res' = Response("me_retrieve", TRUE, token, token, 200,
                          <<UserSerializer_data(accounts[token])>>,
                          NoPayload, FALSE)
       /\ UNCHANGED <<db, writes, userdb>>

\* PUT (partial = FALSE) and PATCH (partial = TRUE) /user/me
ManageUserView_update(token, body, partial) ==
  LET op == IF partial THEN "me_partial_update" ELSE "me_update"
  IN IF ~IsAuthenticated(token \in tokens)
     THEN Unauthorized(op) /\ UNCHANGED userdb
     ELSE IF ~UserSerializer_is_valid(body, partial, token)
     THEN RefuseUser(op, TRUE, token, 400, body)
     ELSE LET user == UserSerializer_update(accounts[token], body)
          IN /\ writes < MaxWrites
             /\ accounts' = [accounts EXCEPT ![token] = user]
             /\ writes' = writes + 1
             /\ res' = Response(op, TRUE, token, token, 200,
                                <<UserSerializer_data(user)>>, body, FALSE)
             /\ UNCHANGED <<db, accountSeq, tokens>>

\* ------------------------------------------------------------- NextUser
RegistrationPayloads ==
  {[NoPayload EXCEPT !.has_email = TRUE, !.email = e,
                     !.has_password = TRUE, !.password = p,
                     !.has_name = TRUE, !.name = n] :
     e \in Emails, p \in Passwords, n \in Names}

CredentialPayloads ==
  {[NoPayload EXCEPT !.has_email = TRUE, !.email = e,
                     !.has_password = TRUE, !.password = p] :
     e \in Emails, p \in Passwords}

\* a profile body: any of password, name and email, each present or not
ProfilePayloads ==
  LET withPassword ==
        {NoPayload}
        \cup {[NoPayload EXCEPT !.has_password = TRUE, !.password = p] :
                p \in Passwords}
      withName ==
        withPassword
        \cup {[b EXCEPT !.has_name = TRUE, !.name = n] :
                b \in withPassword, n \in Names}
  IN withName
     \cup {[b EXCEPT !.has_email = TRUE, !.email = <<"u", "@", "X">>] :
             b \in withName}

\* the tokens a request may carry: one that was issued, or none (0)
Tokens == tokens \cup {0}

UserChanged(r) ==
  \/ r.op = "none"
  \/ r.status = 201
  \/ r.status = 200 /\ r.op \in {"token_create", "me_update",
                                  "me_partial_update"}
  \/ r.op = "create_superuser" /\ r.raised = ""

NextUser ==
  \/ UserChanged(res) /\ UNCHANGED calls /\ \E e \in Emails, p \in Passwords \ {Blank} :
        CreateSuperuser(e, p)
  \/ UserChanged(res) /\ UNCHANGED calls /\ \E b \in RegistrationPayloads :
        CreateUserView_post(b)
  \/ UserChanged(res) /\ UNCHANGED calls /\ \E b \in CredentialPayloads :
        CreateTokenView_post(b)
  \/ UserChanged(res) /\ UNCHANGED calls /\ \E t \in Tokens : ManageUserView_retrieve(t)
  \/ UserChanged(res) /\ UNCHANGED calls /\ \E t \in Tokens :
        \E b \in Bodies(t # 0, ProfilePayloads), partial \in BOOLEAN :
          ManageUserView_update(t, b, partial)

SpecUser == Init /\ [][NextUser]_vars

\* ====================================================== side-by-side writes
\* Recipe creates that each carry one nested name, served by workers that
\* share nothing but the database.  A call runs in a transaction: what it
\* writes is seen by the others once it commits, what it reads is what has
\* been committed; primary keys come from sequences, which no transaction
\* rolls back.

\* the committed rows a lookup by (user, name) finds
Matching(table, user, name) ==
  {id \in DOMAIN table : table[id].user = user /\ table[id].name = name}

\* POST /recipe/recipes {title, tags: [{name}]} (or ingredients) arrives;
\* the serializer inserts the recipe row before it resolves the names
ReceiveCreate(c, auth, user, kind, name) ==
  /\ calls[c].pc = "idle"
  /\ IF ~IsAuthenticated(auth)
     THEN /\ calls' = [calls EXCEPT ![c] = [NoCall EXCEPT !.pc = "done",
                                                          !.status = 401]]
          /\ UNCHANGED recipeSeq
     ELSE /\ recipeSeq' = recipeSeq + 1
          /\ calls' = [calls EXCEPT ![c] =
                         [NoCall EXCEPT !.pc = "lookup", !.user = user,
                                        !.kind = kind, !.name = name,
                                        !.recipe = recipeSeq + 1]]
  /\ UNCHANGED <<recipes, tags, ingredients, tagSeq, ingredientSeq, writes,
                 res, userdb>>

\* get_or_create, first half: the row of the requesting user under the name
\* is looked up; more than one match raises and the transaction is rolled
\* back
Lookup(c) ==
  LET call == calls[c]
      found == Matching(Table(call.kind), call.user, call.name)
  IN /\ call.pc = "lookup"
     /\ calls' = [calls EXCEPT ![c] =
                    IF Cardinality(found) > 1
                    THEN [call EXCEPT !.pc = "done", !.status = 500]
                    ELSE IF found # {}
                    THEN [call EXCEPT !.pc = "commit",
                                      !.row = CHOOSE id \in found : TRUE]
                    ELSE [call EXCEPT !.pc = "insert"]]
     /\ UNCHANGED <<db, writes, res, userdb>>

\* get_or_create, second half: no row was found, one is inserted
InsertRow(c) ==
  LET call == calls[c]
      id == TableSeq(call.kind) + 1
  IN /\ call.pc = "insert"
     /\ IF call.kind = "tag"
        THEN tagSeq' = id /\ UNCHANGED ingredientSeq
        ELSE ingredientSeq' = id /\ UNCHANGED tagSeq
     /\ calls' = [calls EXCEPT ![c] = [call EXCEPT !.pc = "commit",
                                                   !.row = id,
                                                   !.created = TRUE]]
     /\ UNCHANGED <<recipes, tags, ingredients, recipeSeq, writes, res,
                    userdb>>

\* the row is added to the recipe, the transaction commits, 201 is answered
Commit(c) ==
  LET call == calls[c]
      table == Table(call.kind)
  IN /\ call.pc = "commit"
     /\ recipes' = Insert(recipes, call.recipe,
                          [user |-> perform_create(call.user), title |-> 1,
                           link |-> 0, image |-> "",
                           tags |-> IF call.kind = "tag" THEN {call.row}
                                    ELSE {},
                           ingredients |-> IF call.kind = "tag" THEN {}
                                           ELSE {call.row}])
     /\ SetTable(call.kind,
                 IF call.created
                 THEN Insert(table, call.row,
                             [user |-> call.user, name |-> call.name])
                 ELSE table)
     /\ calls' = [calls EXCEPT ![c] = [call EXCEPT !.pc = "done",
                                                   !.status = 201]]
     /\ UNCHANGED <<recipeSeq, tagSeq, ingredientSeq, writes, res, userdb>>

NextRace ==
  \/ \E c \in Calls, a \in BOOLEAN :
       \E u \in Callers(a), k \in Kinds, n \in Names :
         ReceiveCreate(c, a, u, k, n)
  \/ \E c \in Calls : Lookup(c)
  \/ \E c \in Calls : InsertRow(c)
  \/ \E c \in Calls : Commit(c)

SpecRace == Init /\ [][NextRace]_vars

\* ======================================================= properties
RecipeDetailOps == {"recipe_retrieve", "recipe_update",
                    "recipe_partial_update", "recipe_destroy",
                    "recipe_upload_image"}
AttributeWriteOps(kind) == {OpName(kind, "update"),
                            OpName(kind, "partial_update"),
                            OpName(kind, "destroy")}
AttributeDetailOps(kind) == AttributeWriteOps(kind)
                            \cup {OpName(kind, "retrieve")}

\* the request recorded in r addresses a row of `table` that belongs to a
\* user other than the authenticated caller
OnForeignRow(r, ops, table) ==
  /\ r.auth
  /\ r.op \in ops
  /\ r.id \in DOMAIN table
  /\ table[r.id].user # r.user

\* C1 as stated: every detail read, update, delete or image upload that a
\* user issues on a recipe, tag or ingredient of another user is answered
\* 404 and leaves the database as it was.
C1_ForeignDetailIs404 ==
  [][(\/ OnForeignRow(res', RecipeDetailOps, recipes)
      \/ OnForeignRow(res', AttributeDetailOps("tag"), tags)
      \/ OnForeignRow(res', AttributeDetailOps("ingredient"), ingredients))
     => res'.status = 404 /\ db' = db]_vars

\* C1 amended: on another user's recipe a detail read, update, delete or
\* image upload is answered 404; on another user's tag or ingredient an
\* update or delete is answered 404 and a detail read, which these endpoints
\* offer to nobody, 405; in each case the database is left as it was.
C1_ForeignDetailRefused ==
  [][/\ (\/ OnForeignRow(res', RecipeDetailOps, recipes)
         \/ OnForeignRow(res', AttributeWriteOps("tag"), tags)
         \/ OnForeignRow(res', AttributeWriteOps("ingredient"), ingredients))
        => res'.status = 404 /\ db' = db
     /\ (\/ OnForeignRow(res', {"tag_retrieve"}, tags)
         \/ OnForeignRow(res', {"ingredient_retrieve"}, ingredients))
        => res'.status = 405 /\ db' = db]_vars

\* a user was refused the deletion of another user's recipe, which is
\* still there
C1_Witness ==
  /\ OnForeignRow(res, {"recipe_destroy"}, recipes)
  /\ res.status = 404

\* C2: the recipe list answered to an authenticated user holds exactly the
\* recipes that user owns, each once, in descending order of id.
C2_RecipeListScopedAndOrdered ==
  [][res'.op = "recipe_list" /\ res'.status = 200
     => LET data == res'.data
        IN /\ {data[i].id : i \in DOMAIN data}
                = {id \in DOMAIN recipes' : recipes'[id].user = res'.user}
           /\ \A i, j \in DOMAIN data : i < j => data[i].id > data[j].id]_vars

\* a user listed two recipes of their own
C2_Witness ==
  /\ res.op = "recipe_list"
  /\ res.status = 200
  /\ Len(res.data) = 2
  /\ \A i \in DOMAIN res.data : recipes[res.data[i].id].user = res.user

\* C3: the tag list and the ingredient list answered to an authenticated
\* user hold exactly the rows that user owns, each once, with their names,
\* in descending order of name.
C3_AttributeListScopedAndOrdered ==
  [][\A kind \in Kinds :
       res'.op = OpName(kind, "list") /\ res'.status = 200
       /\ ~res'.assigned_only
       => LET data == res'.data
              table == IF kind = "tag" THEN tags' ELSE ingredients'
          IN /\ {data[i].id : i \in DOMAIN data}
                  = {id \in DOMAIN table : table[id].user = res'.user}
             /\ \A i, j \in DOMAIN data : i # j => data[i].id # data[j].id
             /\ \A i \in DOMAIN data : data[i].name = table[data[i].id].name
             /\ \A i, j \in DOMAIN data :
                  i < j => data[i].name >= data[j].name]_vars

\* a user listed two tags with different names while another user has a tag
C3_Witness ==
  /\ res.op = "tag_list"
  /\ res.status = 200
  /\ ~res.assigned_only
  /\ Len(res.data) = 2
  /\ res.data[1].name > res.data[2].name
  /\ \E id \in DOMAIN tags : tags[id].user # res.user

\* C4: a request without a valid token to a recipe, tag, ingredient or
\* /user/me endpoint is answered 401 and leaves the database as it was.
C4_NoTokenIs401 ==
  [][~res'.auth /\ res'.op # "none" => res'.status = 401 /\ db' = db]_vars

\* a request to delete an existing recipe came without a token
C4_Witness ==
  /\ ~res.auth
  /\ res.op = "recipe_destroy"
  /\ res.status = 401
  /\ 1 \in DOMAIN recipes

RecipeWriteOps == {"recipe_create", "recipe_update", "recipe_partial_update"}

\* the recorded request is a recipe write that went through and carried
\* the nested list of `kind`
WroteNested(r, kind) ==
  /\ r.op \in RecipeWriteOps
  /\ r.status \in {200, 201}
  /\ IF kind = "tag" THEN r.body.has_tags ELSE r.body.has_ingredients

Submitted(r, kind) ==
  NameSet(IF kind = "tag" THEN r.body.tags ELSE r.body.ingredients)

\* the rows of `table` that `user` owns under one of `names`
OwnedNamed(table, user, names) ==
  {id \in DOMAIN table : table[id].user = user /\ table[id].name \in names}

\* C5: after a recipe create or update that went through and carried a
\* `tags` (`ingredients`) list, the recipe is associated with exactly the
\* tags (ingredients) of its owner that bear a submitted name; names left
\* out are dropped and an empty list leaves no association.
C5_AssociationReplaced ==
  [][\A kind \in Kinds :
       WroteNested(res', kind)
       => LET table == IF kind = "tag" THEN tags' ELSE ingredients'
              recipe == recipes'[res'.id]
          IN Assoc(recipe, kind)
               = OwnedNamed(table, recipe.user, Submitted(res', kind))]_vars

\* an update dropped a tag of the owner whose name was left out of a
\* non-empty list
C5_Witness ==
  /\ WroteNested(res, "tag")
  /\ res.op = "recipe_partial_update"
  /\ res.body.tags # <<>>
  /\ recipes[res.id].tags # {}
  /\ \E id \in DOMAIN tags :
       /\ tags[id].user = res.user
       /\ tags[id].name \notin Submitted(res, "tag")
       /\ id \notin recipes[res.id].tags

\* C6: a recipe write that repeats the nested lists of the write just
\* before it on the same recipe adds no tag or ingredient row and leaves the
\* recipe's associations as the first write left them.
C6_ReconciliationIdempotent ==
  [][res'.resubmitted
     => /\ tags' = tags /\ tagSeq' = tagSeq
        /\ ingredients' = ingredients /\ ingredientSeq' = ingredientSeq
        /\ recipes'[res'.id].tags = recipes[res'.id].tags
        /\ recipes'[res'.id].ingredients = recipes[res'.id].ingredients]_vars

\* a list of two different tag names was submitted a second time
C6_Witness ==
  /\ res.resubmitted
  /\ res.status = 200
  /\ Cardinality(Submitted(res, "tag")) = 2
  /\ Cardinality(recipes[res.id].tags) = 2

\* C7: on a recipe write with a nested list, a row the caller already owns
\* under a submitted name is reused, the rows created are owned by the
\* caller and bear the names the caller did not have, one row per such name,
\* and no existing row is altered.
C7_ReuseOrCreatePerName ==
  [][\A kind \in Kinds :
       WroteNested(res', kind)
       => LET before == Table(kind)
              after == IF kind = "tag" THEN tags' ELSE ingredients'
              names == Submitted(res', kind)
              unseen == {n \in names : OwnedNamed(before, res'.user, {n}) = {}}
              created == DOMAIN after \ DOMAIN before
          IN /\ Cardinality(created) = Cardinality(unseen)
             /\ \A id \in created : /\ after[id].user = res'.user
                                     /\ after[id].name \in unseen
             /\ \A id \in DOMAIN before :
                  id \in DOMAIN after /\ after[id] = before[id]
             /\ OwnedNamed(before, res'.user, names)
                  \subseteq Assoc(recipes'[res'.id], kind)]_vars

\* a list naming one tag twice was submitted by a user who gained exactly
\* one tag of that name, while another user owns a tag of the same name
C7_Witness ==
  /\ WroteNested(res, "tag")
  /\ Len(res.body.tags) = 2
  /\ res.body.tags[1] = res.body.tags[2]
  /\ Cardinality(OwnedNamed(tags, res.user, Submitted(res, "tag"))) = 1
  /\ \E id \in DOMAIN tags :
       tags[id].user # res.user /\ tags[id].name = res.body.tags[1]

\* C8: every tag and every ingredient associated with a recipe has the
\* owner of that recipe.
C8_AssociationsShareOwner ==
  \A id \in DOMAIN recipes :
    /\ \A t \in recipes[id].tags :
         t \in DOMAIN tags => tags[t].user = recipes[id].user
    /\ \A i \in recipes[id].ingredients :
         i \in DOMAIN ingredients
         => ingredients[i].user = recipes[id].user

\* two users each have a recipe tagged with a tag of the same name, and the
\* two tags are different rows
C8_Witness ==
  \E r1, r2 \in DOMAIN recipes :
    /\ recipes[r1].user # recipes[r2].user
    /\ \E t1 \in recipes[r1].tags, t2 \in recipes[r2].tags :
         t1 # t2 /\ tags[t1].name = tags[t2].name

\* the rows of `kind` that some recipe refers to
Referenced(kind) ==
  UNION {Assoc(recipes[id], kind) : id \in DOMAIN recipes}

\* C9: a tag or ingredient list asked with assigned_only=1 holds each row of
\* the caller that at least one recipe refers to, once, and no row that no
\* recipe refers to.
C9_AssignedOnlyListsReferenced ==
  [][\A kind \in Kinds :
       res'.op = OpName(kind, "list") /\ res'.status = 200
       /\ res'.assigned_only
       => LET data == res'.data
          IN /\ {data[i].id : i \in DOMAIN data}
                  = {id \in Referenced(kind) :
                       Table(kind)[id].user = res'.user}
             /\ \A i, j \in DOMAIN data : i # j => data[i].id # data[j].id]_vars

\* C10: a valid image, and nothing else, posted by the owner of a recipe to
\* its upload-image endpoint is answered 200 with the image in the data, is
\* validated with the image-only serializer, and leaves a stored path on the
\* recipe.
C10_ValidImageStored ==
  [][/\ res'.op = "recipe_upload_image"
     /\ res'.auth
     /\ res'.body.image = "valid"
     /\ res'.id \in DOMAIN recipes
     /\ recipes[res'.id].user = res'.user
     => /\ res'.status = 200
        /\ res'.serializer = "RecipeImageSerializer"
        /\ Len(res'.data) = 1
        /\ recipes'[res'.id].image # ""]_vars

\* C11: a body that is not a decodable image, posted by the owner of a
\* recipe to its upload-image endpoint, is answered 400 and leaves the
\* recipe's stored image and every other field of the database as it was.
C11_InvalidImageRefused ==
  [][/\ res'.op = "recipe_upload_image"
     /\ res'.auth
     /\ res'.body.image = "invalid"
     /\ res'.id \in DOMAIN recipes
     /\ recipes[res'.id].user = res'.user
     => /\ res'.status = 400
        /\ recipes' = recipes
        /\ db' = db]_vars

C11_Witness ==
  /\ res.op = "recipe_upload_image"
  /\ res.auth
  /\ res.body.image = "invalid"
  /\ res.id \in DOMAIN recipes
  /\ recipes[res.id].user = res.user
  /\ res.status = 400

\* C12: a request to the token endpoint is answered 200 with a token that
\* resolves to a user exactly when the submitted address and password are
\* the stored address and the password of that user, and that user then
\* holds a token; any other submission (wrong password, unknown address,
\* empty password) is answered 400 with no token in the data and no token
\* issued.
C12_TokenIffCredentials ==
  [][res'.op = "token_create"
     => LET body == res'.body
            holders == {id \in DOMAIN accounts :
                          /\ accounts[id].email = body.email
                          /\ accounts[id].password
                               = make_password(body.password)}
        IN IF holders # {} /\ body.password # Blank
           THEN /\ res'.status = 200
                /\ Len(res'.data) = 1
                /\ res'.data[1].token \in holders
                /\ tokens' = tokens \cup {res'.data[1].token}
                /\ accounts' = accounts
           ELSE /\ res'.status = 400
                /\ res'.data = <<>>
                /\ userdb' = userdb]_vars

C12_Witness ==
  /\ res.op = "token_create"
  /\ res.status = 200
  /\ res.user \in tokens
  /\ accounts[res.user].email = res.body.email
  /\ Cardinality(DOMAIN accounts) = 2

C14_EmailNormalised ==
  [][res'.op \in {"user_create", "create_superuser"}
     => LET email == res'.body.email
            k == LastAt(email)
        IN /\ email = Blank
              => /\ accounts' = accounts
                 /\ IF res'.op = "user_create" THEN res'.status = 400
                    ELSE res'.raised = "ValueError"
           /\ DOMAIN accounts' # DOMAIN accounts
              => LET stored == accounts'[res'.id].email
                 IN /\ DOMAIN accounts' = DOMAIN accounts \cup {res'.id}
                    /\ Len(stored) = Len(email)
                    /\ k > 0
                    /\ SubSeq(stored, 1, k) = SubSeq(email, 1, k)
                    /\ \A i \in (k + 1)..Len(email) :
                         stored[i] = LowerChar(email[i])]_vars

C14_Witness ==
  /\ res.op = "user_create"
  /\ res.status = 201
  /\ res.body.email = <<"U", "@", "X">>
  /\ accounts[res.id].email = <<"U", "@", "x">>

\* C15: the owner of a recipe is the user who created it and stays so: a
\* create stores the requester as owner whatever `user` the body names, and
\* no request, an update carrying a `user` key included, changes the owner
\* of a recipe that exists.
C15_OwnerFixed ==
  [][/\ \A id \in DOMAIN recipes \cap DOMAIN recipes' :
          recipes'[id].user = recipes[id].user
     /\ \A id \in DOMAIN recipes' \ DOMAIN recipes :
          /\ res'.op = "recipe_create"
          /\ res'.id = id
          /\ recipes'[id].user = res'.user]_vars

C15_Witness ==
  /\ res.op \in {"recipe_update", "recipe_partial_update"}
  /\ res.status = 200
  /\ res.body.has_user
  /\ res.body.user # res.user
  /\ recipes[res.id].user = res.user

\* C16: a PATCH of a recipe that goes through sets the fields its body
\* holds and nothing else: a scalar field the body does not hold keeps its
\* value, the tags (the ingredients) of the recipe and the tag (ingredient)
\* table are as before when the body holds no `tags` (`ingredients`) key,
\* and every other recipe is as before.
C16_PatchChangesOnlySubmitted ==
  [][res'.op = "recipe_partial_update" /\ res'.status = 200
     => LET body == res'.body
            old == recipes[res'.id]
            new == recipes'[res'.id]
        IN /\ new.title = IF body.has_title THEN body.title ELSE old.title
           /\ new.link = IF body.has_link THEN body.link ELSE old.link
           /\ new.image = old.image
           /\ new.user = old.user
           /\ ~body.has_tags => new.tags = old.tags /\ tags' = tags
           /\ ~body.has_ingredients
              => new.ingredients = old.ingredients
                 /\ ingredients' = ingredients
           /\ DOMAIN recipes' = DOMAIN recipes
           /\ \A id \in DOMAIN recipes \ {res'.id} :
                recipes'[id] = recipes[id]]_vars

C16_Witness ==
  /\ res.op = "recipe_partial_update"
  /\ res.status = 200
  /\ res.body.has_title
  /\ ~res.body.has_link
  /\ ~res.body.has_tags
  /\ ~res.body.has_ingredients
  /\ recipes[res.id].tags # {}

\* the primary keys a table handed out whose rows are no longer there; rows
\* leave a table by a delete only
Gone(table, last) == (1..last) \ DOMAIN table

\* a delete of a recipe by its owner is answered 204 and removes the row;
\* a key that is gone stays gone, is in no list answered afterwards, and
\* every detail operation on it is answered 404
RecipeDeleted ==
  /\ /\ res'.op = "recipe_destroy"
     /\ res'.auth
     /\ res'.id \in DOMAIN recipes
     /\ recipes[res'.id].user = res'.user
     => res'.status = 204 /\ res'.id \notin DOMAIN recipes'
  /\ Gone(recipes, recipeSeq) \subseteq Gone(recipes', recipeSeq')
  /\ res'.op = "recipe_list" /\ res'.status = 200
     => \A i \in DOMAIN res'.data : res'.data[i].id \in DOMAIN recipes'
  /\ /\ res'.op \in RecipeDetailOps
     /\ res'.auth
     /\ res'.id \in Gone(recipes, recipeSeq)
     => res'.status = 404

\* the same of a tag / ingredient, for the detail operations `ops`
AttributeDeleted(kind, ops) ==
  /\ /\ res'.op = OpName(kind, "destroy")
     /\ res'.auth
     /\ res'.id \in DOMAIN Table(kind)
     /\ Table(kind)[res'.id].user = res'.user
     => res'.status = 204 /\ res'.id \notin DOMAIN Table(kind)'
  /\ Gone(Table(kind), TableSeq(kind))
       \subseteq Gone(Table(kind)', TableSeq(kind)')
  /\ res'.op = OpName(kind, "list") /\ res'.status = 200
     => \A i \in DOMAIN res'.data : res'.data[i].id \in DOMAIN Table(kind)'
  /\ /\ res'.op \in ops
     /\ res'.auth
     /\ res'.id \in Gone(Table(kind), TableSeq(kind))
     => res'.status = 404

\* C17 as stated: a recipe, tag or ingredient deleted by its owner is
\* answered 204 and exists no more: it is in no later list, and every later
\* detail operation on its id, a detail read included, is answered 404.
C17_DeletedIs404 ==
  [][/\ RecipeDeleted
     /\ \A kind \in Kinds :
          AttributeDeleted(kind, AttributeDetailOps(kind))]_vars

\* C17 as amended: the same, with 404 for every later update or delete of a
\* deleted tag or ingredient (and every later detail operation on a deleted
\* recipe), while a detail read of a tag or ingredient is answered 405.
C17_DeletedStaysGone ==
  [][/\ RecipeDeleted
     /\ \A kind \in Kinds :
          /\ AttributeDeleted(kind, AttributeWriteOps(kind))
          /\ /\ res'.op = OpName(kind, "retrieve")
             /\ res'.auth
             /\ res'.id \in Gone(Table(kind), TableSeq(kind))
             => res'.status = 405]_vars

C17_Witness ==
  /\ res.op \in AttributeWriteOps("tag")
  /\ res.auth
  /\ res.status = 404
  /\ res.id \in Gone(tags, tagSeq)

\* C18: in every reachable state no two tags of one user have the same name,
\* and no two ingredients of one user have the same name.
C18_NamesUniquePerUser ==
  \A kind \in Kinds :
    \A i, j \in DOMAIN Table(kind) :
      /\ i # j
      /\ Table(kind)[i].user = Table(kind)[j].user
      => Table(kind)[i].name # Table(kind)[j].name

MeUpdateOps == {"me_update", "me_partial_update"}

\* no response holds a password
NoPasswordInData(r) ==
  \A i \in DOMAIN r.data : "password" \notin DOMAIN r.data[i]

\* C19 as stated, for PATCH: an update of the profile sets the stored
\* password exactly when the body holds a password that is not empty (the
\* new one then verifies and no other does); when the body holds none or an
\* empty one the stored password stays and the other submitted fields are
\* stored; no response holds a password.
C19_PasswordSetIffNonEmpty ==
  [][/\ res'.op = "me_partial_update" /\ res'.auth
        => LET body == res'.body
               old == accounts[res'.id]
               new == accounts'[res'.id]
           IN IF body.has_password /\ body.password # Blank
              THEN new.password = make_password(body.password)
              ELSE /\ new.password = old.password
                   /\ body.has_name => new.name = body.name
                   /\ body.has_email => new.email = body.email
     /\ NoPasswordInData(res')]_vars

\* C19 as amended: an update of the profile whose body holds a password that
\* is empty or shorter than 5 characters is answered 400; an update that is
\* not answered 200 stores nothing; an update answered 200 sets the stored
\* password exactly when the body holds a password (the new one verifies and
\* no other does), leaves it as it was otherwise, stores the other submitted
\* fields and leaves the rest; no response holds a password.
C19_ProfileUpdate ==
  [][/\ res'.op \in MeUpdateOps /\ res'.auth
        => LET body == res'.body
               old == accounts[res'.id]
               new == accounts'[res'.id]
           IN /\ body.has_password /\ Len(body.password) < MinLength
                 => res'.status = 400
              /\ res'.status # 200 => userdb' = userdb
              /\ res'.status = 200
                 => /\ IF body.has_password
                       THEN /\ check_password(body.password, new.password)
                            /\ \A p \in Passwords \ {body.password} :
                                 ~check_password(p, new.password)
                       ELSE new.password = old.password
                    /\ new.name = IF body.has_name THEN body.name
                                  ELSE old.name
                    /\ new.email = IF body.has_email THEN body.email
                                   ELSE old.email
                    /\ DOMAIN accounts' = DOMAIN accounts
                    /\ \A id \in DOMAIN accounts \ {res'.id} :
                         accounts'[id] = accounts[id]
     /\ NoPasswordInData(res')]_vars

C19_Witness ==
  /\ res.op = "me_partial_update"
  /\ res.auth
  /\ res.status = 200
  /\ res.body.has_password
  /\ res.body.has_name
  /\ accounts[res.id].password = make_password(res.body.password)
  /\ accounts[res.id].name = res.body.name

\* C20: in every state reached, every tag and ingredient a recipe refers to
\* exists; a delete of a tag (ingredient) takes it out of the tags
\* (ingredients) of every recipe, deletes no recipe and changes nothing else
\* of any recipe; a delete of a recipe deletes no tag and no ingredient.
C20_ReferencesExist ==
  [][/\ \A id \in DOMAIN recipes' :
          /\ recipes'[id].tags \subseteq DOMAIN tags'
          /\ recipes'[id].ingredients \subseteq DOMAIN ingredients'
     /\ \A kind \in Kinds :
          res'.op = OpName(kind, "destroy") /\ res'.status = 204
          => /\ DOMAIN recipes' = DOMAIN recipes
             /\ \A id \in DOMAIN recipes :
                  recipes'[id]
                    = IF kind = "tag"
                      THEN [recipes[id] EXCEPT !.tags = @ \ {res'.id}]
                      ELSE [recipes[id] EXCEPT !.ingredients = @ \ {res'.id}]
     /\ res'.op = "recipe_destroy" /\ res'.status = 204
        => tags' = tags /\ ingredients' = ingredients]_vars

\* a tag was deleted that a recipe of its owner referred to next to another
C20_Witness ==
  /\ res.op = "tag_destroy"
  /\ res.status = 204
  /\ res.id \in Gone(tags, tagSeq)
  /\ \E id \in DOMAIN recipes :
       /\ recipes[id].user = res.user
       /\ recipes[id].tags # {}
       /\ writes = 2

\* C21: of recipe writes served side by side, each either went through as a
\* whole (its recipe is stored with the row of the name it carried) or left
\* nothing behind, and no call that is still running has anything stored;
\* when two that went through were made by one user with one name, that
\* user owns exactly one tag (ingredient) of that name and both recipes
\* refer to it.
C21_InterleavedWritesShareOneRow ==
  /\ \A c \in Calls :
       LET call == calls[c]
       IN IF call.pc = "done" /\ call.status = 201
          THEN /\ call.recipe \in DOMAIN recipes
               /\ Assoc(recipes[call.recipe], call.kind) = {call.row}
               /\ call.row \in DOMAIN Table(call.kind)
          ELSE /\ call.recipe \notin DOMAIN recipes
               /\ call.created => call.row \notin DOMAIN Table(call.kind)
  /\ \A c, d \in Calls :
       /\ c # d
       /\ calls[c].pc = "done" /\ calls[c].status = 201
       /\ calls[d].pc = "done" /\ calls[d].status = 201
       /\ calls[c].user = calls[d].user
       /\ calls[c].kind = calls[d].kind
       /\ calls[c].name = calls[d].name
       => /\ Cardinality(Matching(Table(calls[c].kind), calls[c].user,
                                  calls[c].name)) = 1
          /\ calls[c].row = calls[d].row

====
